---- MODULE Spec2Model ----
(***************************************************************************)
(* Model of the `pi` launcher (src/src/main.rs): invocation routing, the   *)
(* local-installation locator, the per-user cache, remote provisioning     *)
(* (download_cli), dependency installation and delegation to `node`.       *)
(*                                                                         *)
(* The file system the launcher reads and writes is shared state; every    *)
(* invocation is a process p whose position in main / ensure_cli_available *)
(* / download_cli is pc[p].  Each action is one blocking call of the code. *)
(***************************************************************************)
EXTENDS Integers, Sequences, FiniteSets, TLC

VARIABLES
    cwdDepth,       \* cwdDepth[p]: number of ancestors of env::current_dir()
    installs,       \* installs[p]: local installations, [level, kind], above the cwd
    bundled,        \* a native executable lies in bundle/executables/ next to the launcher
    cacheBaseKnown, \* dirs::cache_dir() is Some(_)
    cacheRoot,      \* <cache>/.package-installer-cli exists
    cache,          \* entries present directly under the cache root
    temp,           \* <cache root>/temp: [exists, top, entries]
    started,        \* number of invocations begun so far
    pc,             \* pc[p]: position of invocation p
    argv,           \* argv[p]: env::args() of invocation p
    cli_args,       \* cli_args[p]: forwarded argument vector
    cli_path,       \* cli_path[p]: path ensure_cli_available returned (or NoPath)
    archive,        \* archive[p]: tarball bytes held in memory by download_cli
    toCopy,         \* toCopy[p]: entries copy_dir_all has still to copy
    exitCode,       \* exitCode[p]: process exit status (NoCode while running)
    childStatus,    \* childStatus[p]: status.code() of the spawned child
    entryAtStart,   \* entryAtStart[p]: the cache entry point existed when p began
    trace,          \* trace[p]: observable steps of invocation p, in order
    copyCompleted,  \* some copy_dir_all into the cache root has returned Ok
    detectCall      \* one call of install_dependencies on its own: inputs and results

vars == <<cwdDepth, installs, bundled, cacheBaseKnown, cacheRoot, cache, temp,
          started, pc, argv, cli_args, cli_path, archive, toCopy, exitCode,
          childStatus, entryAtStart, trace, copyCompleted, detectCall>>

fsVars == <<cacheRoot, cache, temp>>
envVars == <<bundled, cacheBaseKnown, detectCall>>

----------------------------------------------------------------------------
(* Bounds of the model *)

\* invocation slots (processes)
NumProcs == 2
\* invocations begun in one behaviour
MaxInvocations == 3
\* deepest working directory (number of ancestors) the locator is tried on
MaxDepth == 6
\* most local installations present at once in the locator's input
MaxInstalls == 2
\* longest argument list after the program name
MaxArgs == 2

(* Program constants *)

\* `for _ in 0..5` of check_local_installation
ParentLevels == 5
\* exit status of a Rust process whose main thread panicked (the failed expect)
PanicExitCode == 101
\* std::process::exit(1) of main; also status.code().unwrap_or(1)
FailureExitCode == 1

Procs == 1..NumProcs

NoPath == [origin |-> "none", level |-> 0, kind |-> "none"]
NoCode == -1
NoArchive == [valid |-> FALSE, top |-> FALSE, entries |-> {}]
NoTemp == [exists |-> FALSE, top |-> FALSE, entries |-> {}]
NotFound == [found |-> FALSE, level |-> 0, kind |-> "none"]

\* the two distinct relative paths the locator probes
Kinds == {"scoped", "legacy"}
\* entries of the provisioned tree that the code looks at
Entries == {"dist/index.js", "package.json", "pnpm-lock.yaml", "yarn.lock"}
Managers == {"pnpm", "yarn", "npm"}

----------------------------------------------------------------------------
(* Pure functions of the program *)

\* binary_name.contains("pi"): the name is a sequence of characters
Contains(name, sub) ==
    \E i \in 1..(Len(name) - Len(sub) + 1) : SubSeq(name, i, i + Len(sub) - 1) = sub

PiChars == <<"p", "i">>

\* should_run_cli of main
should_run_cli(a) ==
    Contains(a.name, PiChars) \/ (Len(a.args) >= 1 /\ a.args[1] = "pi")

\* args.iter().skip(n): the sequence without its first n elements
Skip(s, n) == IF n >= Len(s) THEN <<>> ELSE SubSeq(s, n + 1, Len(s))

\* a forwarded vector that always drops the first argument too
compute_cli_args_skip_two(a) == Skip(a.args, 1)

\* cli_args of main; a.args is env::args() without args[0], so skip(1) of
\* the full vector is a.args itself and skip(2) drops one more element
compute_cli_args(a) ==
    IF Contains(a.name, PiChars) THEN Skip(a.args, 0) ELSE Skip(a.args, 1)

\* path.exists() for <dir `level` levels above the cwd>/node_modules/<kind>/dist/index.js
LocalExists(depth, inst, level, kind) ==
    level <= depth /\ [level |-> level, kind |-> kind] \in inst

Found(level, kind) == [found |-> TRUE, level |-> level, kind |-> kind]

\* a parent walk that probes the legacy path before the scoped one
RECURSIVE walk_parents_legacy_first(_, _, _, _)
walk_parents_legacy_first(depth, inst, iter, level) ==
    IF iter >= ParentLevels THEN NotFound
    ELSE IF LocalExists(depth, inst, level, "legacy") THEN Found(level, "legacy")
    ELSE IF LocalExists(depth, inst, level, "scoped") THEN Found(level, "scoped")
    ELSE IF level < depth THEN walk_parents_legacy_first(depth, inst, iter + 1, level + 1)
    ELSE NotFound

\* the `for _ in 0..5` loop of check_local_installation: iteration `iter`
\* probes check_dir, which is `level` levels above the cwd, then moves to
\* its parent if there is one
RECURSIVE walk_parents(_, _, _, _)
walk_parents(depth, inst, iter, level) ==
    IF iter >= ParentLevels THEN NotFound
    ELSE IF LocalExists(depth, inst, level, "scoped") THEN Found(level, "scoped")
    ELSE IF LocalExists(depth, inst, level, "legacy") THEN Found(level, "legacy")
    ELSE IF level < depth THEN walk_parents(depth, inst, iter + 1, level + 1)
    ELSE NotFound

\* check_local_installation: the three local_paths under the cwd (the first
\* two are the same path), then the parent walk starting at the cwd itself
check_local_installation(depth, inst) ==
    IF LocalExists(depth, inst, 0, "scoped") THEN Found(0, "scoped")
    ELSE IF LocalExists(depth, inst, 0, "legacy") THEN Found(0, "legacy")
    ELSE walk_parents(depth, inst, 0, 0)

\* dependencies_installed
dependencies_installed(files) == "node_modules" \in files

\* a selection that tries yarn's lockfile before pnpm's
detect_package_manager_yarn_first(files, avail) ==
    IF "yarn.lock" \in files /\ "yarn" \in avail THEN "yarn"
    ELSE IF "pnpm-lock.yaml" \in files /\ "pnpm" \in avail THEN "pnpm"
    ELSE "npm"

\* detect_package_manager: lockfile evidence first, then `<pm> --version`
detect_package_manager(files, avail) ==
    IF "pnpm-lock.yaml" \in files /\ "pnpm" \in avail THEN "pnpm"
    ELSE IF "yarn.lock" \in files /\ "yarn" \in avail THEN "yarn"
    ELSE "npm"

\* install_dependencies on the cache root holding `files`, with the package
\* managers `avail` invocable; cmdOk: the install command exits with success;
\* partial: a failing install command still left a node_modules directory.
\* Result: ok, the steps observed, and the cache root's entries afterwards.
install_dependencies(files, avail, cmdOk, partial) ==
    IF "package.json" \notin files
    THEN [ok |-> FALSE, events |-> <<>>, files |-> files]
    ELSE LET pm == detect_package_manager(files, avail) IN
         IF pm \notin Managers
         THEN [ok |-> FALSE, events |-> <<"manual_instructions">>, files |-> files]
         ELSE IF pm \notin avail
         THEN [ok |-> FALSE, events |-> <<"install_cmd", "manual_instructions">>,
               files |-> files]
         ELSE IF cmdOk
         THEN [ok |-> TRUE, events |-> <<"install_cmd">>,
               files |-> files \cup {"node_modules"}]
         ELSE [ok |-> FALSE, events |-> <<"install_cmd", "manual_instructions">>,
               files |-> IF partial THEN files \cup {"node_modules"} ELSE files]

----------------------------------------------------------------------------
(* Inputs *)

\* program names: two that contain "pi", two that do not
Names == {<<"p", "i">>, <<"s", "p", "i", "n">>, <<"p", "x", "i">>, <<"l", "n">>}
Tokens == {"pi", "create"}
ArgLists == UNION {[1..n -> Tokens] : n \in 0..MaxArgs}
AllArgvs == [name : Names, args : ArgLists]
\* the invocations used for whole runs of the pipeline
MainArgvs == {[name |-> <<"p", "i">>, args |-> <<"create">>],
              [name |-> <<"l", "n">>, args |-> <<"pi", "create">>],
              [name |-> <<"l", "n">>, args |-> <<"create">>]}

DelegatingArgvs == {a \in MainArgvs : should_run_cli(a)}

AllInstalls == [level : 0..MaxDepth, kind : Kinds]
\* working directories: depth and the installations on the way to the root
RECURSIVE SubsetsUpTo(_, _)
SubsetsUpTo(S, n) ==
    IF n = 0 THEN {{}}
    ELSE LET smaller == SubsetsUpTo(S, n - 1) IN
         smaller \cup {t \cup {x} : t \in smaller, x \in S}
AllDirs == UNION {[depth : {d},
                   installs : SubsetsUpTo({i \in AllInstalls : i.level <= d}, MaxInstalls)] :
                  d \in 0..MaxDepth}
\* the working directories used for whole runs of the pipeline: no local
\* installation, one in the cwd, one ParentLevels - 1 and one ParentLevels above
MainDirs == [depth : {MaxDepth},
             installs : {{}, {[level |-> 0, kind |-> "legacy"]}}
                        \cup {{[level |-> l, kind |-> "scoped"]} :
                                 l \in {0, ParentLevels - 1, ParentLevels}}]
\* what the release tarball may hold: undecodable bytes, no top-level
\* directory, or one top-level directory with some of Entries
Archives == {NoArchive}
            \cup {[valid |-> TRUE, top |-> FALSE, entries |-> {}]}
            \cup [valid : {TRUE}, top : {TRUE}, entries : SUBSET Entries]
\* the tarball of a release (manifest and entry point), or undecodable bytes
ReleaseArchives == {NoArchive,
                    [valid |-> TRUE, top |-> TRUE,
                     entries |-> {"package.json", "dist/index.js"}]}
\* status.code() of the child: Some(code), or None after a signal
ChildStatuses == {0, 1, 2, 255, NoCode}
\* every status a child can end with
AllChildStatuses == (0..255) \cup {NoCode}

----------------------------------------------------------------------------
(* Initial states *)

IdleProcs ==
    /\ pc = [p \in Procs |-> "idle"]
    /\ cwdDepth = [p \in Procs |-> 0]
    /\ installs = [p \in Procs |-> {}]
    /\ argv = [p \in Procs |-> [name |-> <<>>, args |-> <<>>]]
    /\ cli_args = [p \in Procs |-> <<>>]
    /\ cli_path = [p \in Procs |-> NoPath]
    /\ archive = [p \in Procs |-> NoArchive]
    /\ toCopy = [p \in Procs |-> {}]
    /\ exitCode = [p \in Procs |-> NoCode]
    /\ childStatus = [p \in Procs |-> NoCode]
    /\ entryAtStart = [p \in Procs |-> FALSE]
    /\ trace = [p \in Procs |-> <<>>]

EmptyCache ==
    /\ cacheRoot = FALSE
    /\ cache = {}
    /\ copyCompleted = FALSE
    /\ temp = NoTemp
    /\ started = 0

NoCall == [files |-> {}, avail |-> {}, package_manager |-> "", events |-> <<>>,
           returned |-> FALSE]

\* no invocation has run: the cache is empty
Init ==
    /\ bundled \in BOOLEAN
    /\ cacheBaseKnown \in BOOLEAN
    /\ detectCall = NoCall
    /\ EmptyCache
    /\ IdleProcs

\* install_dependencies is about to be called on a cache root holding any
\* of the entries it looks at, with any of the managers invocable
DetectInputs ==
    [files : SUBSET (Entries \cup {"node_modules"}), avail : SUBSET Managers,
     package_manager : {""}, events : {<<>>}, returned : {FALSE}]

InitDetect ==
    /\ bundled = FALSE
    /\ cacheBaseKnown = TRUE
    /\ detectCall \in DetectInputs
    /\ EmptyCache
    /\ IdleProcs

----------------------------------------------------------------------------
(* Steps of one invocation *)

Running(q) == pc[q] \notin {"idle", "exited"}

Log(p, evs) == trace' = [trace EXCEPT ![p] = @ \o evs]

\* the process ends with status `code`
Exit(p, code) ==
    /\ pc' = [pc EXCEPT ![p] = "exited"]
    /\ exitCode' = [exitCode EXCEPT ![p] = code]

\* ensure_cli_available returned Err(_): `.expect("Failed to download or
\* find CLI")` of main panics; evs are the steps observed just before
Panic(p, evs) ==
    /\ Exit(p, PanicExitCode)
    /\ Log(p, evs \o <<"panic">>)
    /\ cli_path' = [cli_path EXCEPT ![p] = NoPath]

\* get_cache_dir: Err when the platform cache directory is unknown,
\* otherwise the cache root exists afterwards (create_dir_all)
get_cache_dir_ok == cacheBaseKnown
get_cache_dir_root == cacheRoot \/ cacheBaseKnown

\* main, lines 14-27 and 51-57: routing of invocation `a`, begun in slot p
\* in working directory d once every earlier invocation has ended
\* (invocations run one at a time)
main_begin(p, a, d) ==
    /\ started < MaxInvocations
    /\ \A q \in Procs : ~Running(q)
    /\ started' = started + 1
    /\ argv' = [q \in Procs |-> IF q = p THEN a ELSE [name |-> <<>>, args |-> <<>>]]
    /\ cwdDepth' = [q \in Procs |-> IF q = p THEN d.depth ELSE 0]
    /\ installs' = [q \in Procs |-> IF q = p THEN d.installs ELSE {}]
    /\ archive' = [q \in Procs |-> NoArchive]
    /\ toCopy' = [q \in Procs |-> {}]
    /\ cli_path' = [q \in Procs |-> NoPath]
    /\ entryAtStart' = [q \in Procs |-> q = p /\ "dist/index.js" \in cache]
    /\ childStatus' = [q \in Procs |-> NoCode]
    /\ IF should_run_cli(a)
       THEN /\ cli_args' = [q \in Procs |-> IF q = p THEN compute_cli_args(a) ELSE <<>>]
            /\ pc' = [q \in Procs |-> IF q = p THEN "check_local" ELSE "idle"]
            /\ exitCode' = [q \in Procs |-> NoCode]
            /\ trace' = [q \in Procs |-> <<>>]
       ELSE /\ cli_args' = [q \in Procs |-> <<>>]
            /\ pc' = [q \in Procs |-> IF q = p THEN "exited" ELSE "idle"]
            /\ exitCode' = [q \in Procs |-> IF q = p THEN FailureExitCode ELSE NoCode]
            /\ trace' = [q \in Procs |-> IF q = p THEN <<"usage">> ELSE <<>>]
    /\ UNCHANGED <<envVars, copyCompleted, fsVars>>

\* a resolver that prefers a populated cache to the local installation
ensure_local_after_cache(p) ==
    /\ pc[p] = "check_local"
    /\ LET r == check_local_installation(cwdDepth[p], installs[p]) IN
       IF r.found /\ "dist/index.js" \notin cache
       THEN /\ cli_path' = [cli_path EXCEPT ![p] =
                               [origin |-> "local", level |-> r.level, kind |-> r.kind]]
            /\ pc' = [pc EXCEPT ![p] = "spawn"]
            /\ Log(p, <<"local">>)
       ELSE /\ pc' = [pc EXCEPT ![p] = "get_cache_dir"]
            /\ Log(p, <<"local_not_found">>)
            /\ UNCHANGED cli_path
    /\ UNCHANGED <<envVars, copyCompleted, cwdDepth, installs, fsVars, started, argv, cli_args, archive,
                   toCopy, exitCode, childStatus, entryAtStart>>

\* main, lines 14-27 and 51-57, for invocations that overlap: slot p begins
\* while another invocation may be running (two at a time at most); nothing
\* in main looks at it
main_begin_concurrent(p, a, d) ==
    /\ started < MaxInvocations
    /\ ~Running(p)
    /\ \A q, r \in Procs : (Running(q) /\ Running(r)) => q = r
    /\ started' = started + 1
    /\ argv' = [argv EXCEPT ![p] = a]
    /\ cwdDepth' = [cwdDepth EXCEPT ![p] = d.depth]
    /\ installs' = [installs EXCEPT ![p] = d.installs]
    /\ archive' = [archive EXCEPT ![p] = NoArchive]
    /\ toCopy' = [toCopy EXCEPT ![p] = {}]
    /\ cli_path' = [cli_path EXCEPT ![p] = NoPath]
    /\ entryAtStart' = [entryAtStart EXCEPT ![p] = "dist/index.js" \in cache]
    /\ childStatus' = [childStatus EXCEPT ![p] = NoCode]
    /\ IF should_run_cli(a)
       THEN /\ cli_args' = [cli_args EXCEPT ![p] = compute_cli_args(a)]
            /\ pc' = [pc EXCEPT ![p] = "check_local"]
            /\ exitCode' = [exitCode EXCEPT ![p] = NoCode]
            /\ trace' = [trace EXCEPT ![p] = <<>>]
       ELSE /\ cli_args' = [cli_args EXCEPT ![p] = <<>>]
            /\ pc' = [pc EXCEPT ![p] = "exited"]
            /\ exitCode' = [exitCode EXCEPT ![p] = FailureExitCode]
            /\ trace' = [trace EXCEPT ![p] = <<"usage">>]
    /\ UNCHANGED <<envVars, copyCompleted, fsVars>>

\* ensure_cli_available, lines 61-65: the local installation wins
ensure_local(p) ==
    /\ pc[p] = "check_local"
    /\ LET r == check_local_installation(cwdDepth[p], installs[p]) IN
       IF r.found
       THEN /\ cli_path' = [cli_path EXCEPT ![p] =
                               [origin |-> "local", level |-> r.level, kind |-> r.kind]]
            /\ pc' = [pc EXCEPT ![p] = "spawn"]
            /\ Log(p, <<"local">>)
       ELSE /\ pc' = [pc EXCEPT ![p] = "get_cache_dir"]
            /\ Log(p, <<"local_not_found">>)
            /\ UNCHANGED cli_path
    /\ UNCHANGED <<envVars, copyCompleted, cwdDepth, installs, fsVars, started, argv, cli_args, archive, toCopy,
                   exitCode, childStatus, entryAtStart>>

\* ensure_cli_available, line 68: let cache_dir = get_cache_dir()?
ensure_get_cache_dir(p) ==
    /\ pc[p] = "get_cache_dir"
    /\ cacheRoot' = get_cache_dir_root
    /\ IF get_cache_dir_ok
       THEN /\ pc' = [pc EXCEPT ![p] = "check_cache"]
            /\ Log(p, <<"get_cache_dir">>)
            /\ UNCHANGED <<cli_path, exitCode>>
       ELSE Panic(p, <<"get_cache_dir">>)
    /\ UNCHANGED <<envVars, copyCompleted, cwdDepth, installs, cache, temp, started, argv, cli_args, archive, toCopy,
                   childStatus, entryAtStart>>

CachePath == [origin |-> "cache", level |-> 0, kind |-> "dist/index.js"]

\* a cache lookup that also wants node_modules before it accepts the entry point
cli_path_exists_with_deps(files) == "dist/index.js" \in files /\ "node_modules" \in files

\* cli_path.exists(), lines 72 and 96
cli_path_exists(files) == "dist/index.js" \in files

\* ensure_cli_available, lines 72-74, 87-93: the cached entry point is taken
\* as it is when node_modules exists; provisioning starts when it is missing
ensure_check_cache(p) ==
    /\ pc[p] = "check_cache"
    /\ IF cli_path_exists(cache)
       THEN IF ~dependencies_installed(cache)
            THEN /\ pc' = [pc EXCEPT ![p] = "install_cached"]
                 /\ Log(p, <<"cache_hit">>)
                 /\ UNCHANGED cli_path
            ELSE /\ pc' = [pc EXCEPT ![p] = "spawn"]
                 /\ cli_path' = [cli_path EXCEPT ![p] = CachePath]
                 /\ Log(p, <<"cache_hit">>)
       ELSE /\ pc' = [pc EXCEPT ![p] = "download_release"]
            /\ Log(p, <<"cache_miss", "download_cli">>)
            /\ UNCHANGED cli_path
    /\ UNCHANGED <<envVars, copyCompleted, cwdDepth, installs, fsVars, started, argv, cli_args, archive, toCopy,
                   exitCode, childStatus, entryAtStart>>

\* ensure_cli_available, lines 75-90: install_dependencies on the cache hit;
\* Ok and Err both end in return Ok(cli_path)
ensure_install_cached(p) ==
    /\ pc[p] = "install_cached"
    /\ \E avail \in SUBSET Managers, cmdOk \in BOOLEAN, partial \in BOOLEAN :
          LET r == install_dependencies(cache, avail, cmdOk, partial) IN
          /\ cache' = r.files
          /\ Log(p, <<"install_dependencies">> \o r.events
                    \o <<IF r.ok THEN "install_ok" ELSE "install_failed">>)
    /\ pc' = [pc EXCEPT ![p] = "spawn"]
    /\ cli_path' = [cli_path EXCEPT ![p] = CachePath]
    /\ UNCHANGED <<envVars, copyCompleted, cwdDepth, installs, cacheRoot, temp, started, argv, cli_args, archive, toCopy,
                   exitCode, childStatus, entryAtStart>>

ReleaseOutcomes == {"release_unreachable", "release_bad_status", "release_bad_json",
                    "release_no_tarball_url", "release_ok"}
TarballOutcomes == {"tarball_unreachable", "tarball_bad_status", "tarball_ok"}

\* download_cli, lines 155-173: the release metadata request
download_release(p) ==
    /\ pc[p] = "download_release"
    /\ \E o \in ReleaseOutcomes :
          IF o = "release_ok"
          THEN /\ pc' = [pc EXCEPT ![p] = "download_tarball"]
               /\ Log(p, <<"get_release", o>>)
               /\ UNCHANGED <<cli_path, exitCode>>
          ELSE Panic(p, <<"get_release", o>>)
    /\ UNCHANGED <<envVars, copyCompleted, cwdDepth, installs, fsVars, started, argv, cli_args, archive, toCopy,
                   childStatus, entryAtStart>>

\* download_cli, lines 175-190: the tarball request; the bytes are kept in memory
download_tarball_from(p, archives) ==
    /\ pc[p] = "download_tarball"
    /\ \E o \in TarballOutcomes :
          IF o = "tarball_ok"
          THEN /\ \E a \in archives : archive' = [archive EXCEPT ![p] = a]
               /\ pc' = [pc EXCEPT ![p] = "make_temp"]
               /\ Log(p, <<"get_tarball", o>>)
               /\ UNCHANGED <<cli_path, exitCode>>
          ELSE /\ Panic(p, <<"get_tarball", o>>)
               /\ UNCHANGED archive
    /\ UNCHANGED <<envVars, copyCompleted, cwdDepth, installs, fsVars, started, argv, cli_args, toCopy,
                   childStatus, entryAtStart>>

\* the tarball request answered with any of Archives
download_tarball(p) == download_tarball_from(p, Archives)

\* the tarball request answered with the release's usual tarball or with
\* undecodable bytes
download_tarball_release(p) == download_tarball_from(p, ReleaseArchives)

\* a download_cli that waits while another invocation is using temp
download_make_temp_locked(p) ==
    /\ pc[p] = "make_temp"
    /\ \A q \in Procs \ {p} :
          pc[q] \notin {"unpack", "find_extracted", "copy", "install_downloaded",
                        "remove_temp"}
    /\ temp' = [exists |-> TRUE, top |-> FALSE, entries |-> {}]
    /\ pc' = [pc EXCEPT ![p] = "unpack"]
    /\ Log(p, <<"make_temp">>)
    /\ UNCHANGED <<envVars, copyCompleted, cwdDepth, installs, cacheRoot, cache, started, argv, cli_args,
                   cli_path, archive, toCopy, exitCode, childStatus, entryAtStart>>

\* download_cli, lines 193-197: a stale temp is removed, a fresh one created
download_make_temp(p) ==
    /\ pc[p] = "make_temp"
    /\ temp' = [exists |-> TRUE, top |-> FALSE, entries |-> {}]
    /\ pc' = [pc EXCEPT ![p] = "unpack"]
    /\ Log(p, <<"make_temp">>)
    /\ UNCHANGED <<envVars, copyCompleted, cwdDepth, installs, cacheRoot, cache, started, argv, cli_args, cli_path,
                   archive, toCopy, exitCode, childStatus, entryAtStart>>

\* download_cli, line 199: archive.unpack(&temp_dir)?
download_unpack(p) ==
    /\ pc[p] = "unpack"
    /\ IF archive[p].valid /\ temp.exists
       THEN /\ temp' = [exists |-> TRUE, top |-> archive[p].top \/ temp.top,
                        entries |-> archive[p].entries \cup temp.entries]
            /\ pc' = [pc EXCEPT ![p] = "find_extracted"]
            /\ Log(p, <<"unpack">>)
            /\ UNCHANGED <<cli_path, exitCode>>
       ELSE /\ Panic(p, <<"unpack">>)
            /\ UNCHANGED temp
    /\ archive' = [archive EXCEPT ![p] = NoArchive]
    /\ UNCHANGED <<envVars, copyCompleted, cwdDepth, installs, cacheRoot, cache, started, argv, cli_args, toCopy,
                   childStatus, entryAtStart>>

\* download_cli, lines 202-211: the first directory entry of temp
download_find_extracted(p) ==
    /\ pc[p] = "find_extracted"
    /\ IF temp.exists /\ temp.top
       THEN /\ toCopy' = [toCopy EXCEPT ![p] = temp.entries]
            /\ pc' = [pc EXCEPT ![p] = "copy"]
            /\ UNCHANGED <<cli_path, exitCode, trace>>
       ELSE /\ Panic(p, <<"no_extracted_dir">>)
            /\ UNCHANGED toCopy
    /\ UNCHANGED <<envVars, copyCompleted, cwdDepth, installs, fsVars, started, argv, cli_args, archive,
                   childStatus, entryAtStart>>

\* copy_dir_all, lines 226-238, called at line 214: one entry is copied per
\* step, in the order read_dir yields them; any copy may fail, and the
\* entries copied before stay in the cache root
copy_dir_all(p) ==
    /\ pc[p] = "copy"
    /\ IF toCopy[p] = {}
       THEN /\ pc' = [pc EXCEPT ![p] = "install_downloaded"]
            /\ Log(p, <<"copied">>)
            /\ copyCompleted' = TRUE
            /\ UNCHANGED <<cache, toCopy, cli_path, exitCode>>
       ELSE \E e \in toCopy[p], ioOk \in BOOLEAN :
               IF ioOk /\ temp.exists /\ temp.top /\ e \in temp.entries
               THEN /\ cache' = cache \cup {e}
                    /\ toCopy' = [toCopy EXCEPT ![p] = @ \ {e}]
                    /\ UNCHANGED <<pc, cli_path, exitCode, trace, copyCompleted>>
               ELSE /\ Panic(p, <<"copy_failed">>)
                    /\ toCopy' = [toCopy EXCEPT ![p] = {}]
                    /\ UNCHANGED <<cache, copyCompleted>>
    /\ UNCHANGED <<envVars, cwdDepth, installs, cacheRoot, temp, started, argv, cli_args, archive,
                   childStatus, entryAtStart>>

\* a download_cli that goes on to the cleanup without installing
download_install_skipped(p) ==
    /\ pc[p] = "install_downloaded"
    /\ pc' = [pc EXCEPT ![p] = "remove_temp"]
    /\ UNCHANGED <<envVars, copyCompleted, cwdDepth, installs, fsVars, started, argv, cli_args, cli_path,
                   archive, toCopy, exitCode, childStatus, entryAtStart, trace>>

\* download_cli, lines 216-218: install_dependencies(cache_dir)?
download_install(p) ==
    /\ pc[p] = "install_downloaded"
    /\ \E avail \in SUBSET Managers, cmdOk \in BOOLEAN, partial \in BOOLEAN :
          LET r == install_dependencies(cache, avail, cmdOk, partial) IN
          /\ cache' = r.files
          /\ IF r.ok
             THEN /\ pc' = [pc EXCEPT ![p] = "remove_temp"]
                  /\ Log(p, <<"install_dependencies">> \o r.events \o <<"install_ok">>)
                  /\ UNCHANGED <<cli_path, exitCode>>
             ELSE Panic(p, <<"install_dependencies">> \o r.events \o <<"install_failed">>)
    /\ UNCHANGED <<envVars, copyCompleted, cwdDepth, installs, cacheRoot, temp, started, argv, cli_args, archive, toCopy,
                   childStatus, entryAtStart>>

\* download_cli, lines 220-223: fs::remove_dir_all(&temp_dir)?
download_remove_temp(p) ==
    /\ pc[p] = "remove_temp"
    /\ IF temp.exists
       THEN /\ temp' = NoTemp
            /\ pc' = [pc EXCEPT ![p] = "check_downloaded"]
            /\ Log(p, <<"remove_temp">>)
            /\ UNCHANGED <<cli_path, exitCode>>
       ELSE /\ Panic(p, <<"remove_temp">>)
            /\ UNCHANGED temp
    /\ UNCHANGED <<envVars, copyCompleted, cwdDepth, installs, cacheRoot, cache, started, argv, cli_args, archive, toCopy,
                   childStatus, entryAtStart>>

\* a lookup after the download that provisions again when the entry point
\* is still missing
ensure_check_downloaded_retry(p) ==
    /\ pc[p] = "check_downloaded"
    /\ IF cli_path_exists(cache)
       THEN /\ cli_path' = [cli_path EXCEPT ![p] = CachePath]
            /\ pc' = [pc EXCEPT ![p] = "spawn"]
            /\ Log(p, <<"downloaded">>)
       ELSE /\ pc' = [pc EXCEPT ![p] = "download_release"]
            /\ Log(p, <<"entry_point_missing", "download_cli">>)
            /\ UNCHANGED cli_path
    /\ UNCHANGED <<envVars, copyCompleted, cwdDepth, installs, fsVars, started, argv, cli_args, archive,
                   toCopy, exitCode, childStatus, entryAtStart>>

\* an ensure_cli_available that returns the path once download_cli succeeded
ensure_check_downloaded_unchecked(p) ==
    /\ pc[p] = "check_downloaded"
    /\ cli_path' = [cli_path EXCEPT ![p] = CachePath]
    /\ pc' = [pc EXCEPT ![p] = "spawn"]
    /\ Log(p, <<"downloaded">>)
    /\ UNCHANGED <<envVars, copyCompleted, cwdDepth, installs, fsVars, started, argv, cli_args,
                   archive, toCopy, exitCode, childStatus, entryAtStart>>

\* ensure_cli_available, lines 96-101: the entry point is looked up again
ensure_check_downloaded(p) ==
    /\ pc[p] = "check_downloaded"
    /\ IF cli_path_exists(cache)
       THEN /\ cli_path' = [cli_path EXCEPT ![p] = CachePath]
            /\ pc' = [pc EXCEPT ![p] = "spawn"]
            /\ Log(p, <<"downloaded">>)
            /\ UNCHANGED exitCode
       ELSE Panic(p, <<"entry_point_missing">>)
    /\ UNCHANGED <<envVars, copyCompleted, cwdDepth, installs, fsVars, started, argv, cli_args, archive, toCopy,
                   childStatus, entryAtStart>>

\* an exit code that only tells success from failure
exit_code_success_only(st) == IF st = 0 THEN 0 ELSE FailureExitCode

\* main, line 38: status.code().unwrap_or(1)
forwarded_exit_code(st) == IF st = NoCode THEN FailureExitCode ELSE st

\* main, lines 33-50: Command::new("node").arg(&cli_path).args(&cli_args)
\* .status(); the child's code is forwarded, None counts as 1; a spawn error
\* prints the help text, which asks get_cache_dir for the cache location
main_spawn_from(p, statuses) ==
    /\ pc[p] = "spawn"
    /\ \E spawnOk \in BOOLEAN :
          IF spawnOk
          THEN \E st \in statuses :
                  /\ childStatus' = [childStatus EXCEPT ![p] = st]
                  /\ Exit(p, forwarded_exit_code(st))
                  /\ Log(p, <<"spawn", "child_exit">>)
                  /\ UNCHANGED cacheRoot
          ELSE /\ Exit(p, FailureExitCode)
               /\ Log(p, <<"spawn_failed", "spawn_help">>)
               /\ cacheRoot' = get_cache_dir_root
               /\ UNCHANGED childStatus
    /\ UNCHANGED <<envVars, copyCompleted, cwdDepth, installs, cache, temp, started, argv, cli_args, cli_path, archive,
                   toCopy, entryAtStart>>

\* the spawn with a child that ends with one of the representative statuses
main_spawn(p) == main_spawn_from(p, ChildStatuses)

\* the spawn with a child that ends with any status 0..255 or by a signal
main_spawn_any(p) == main_spawn_from(p, AllChildStatuses)

----------------------------------------------------------------------------
(* Specifications *)

Step(p) ==
    \/ ensure_local(p)
    \/ ensure_get_cache_dir(p)
    \/ ensure_check_cache(p)
    \/ ensure_install_cached(p)
    \/ download_release(p)
    \/ download_tarball(p)
    \/ download_make_temp(p)
    \/ download_unpack(p)
    \/ download_find_extracted(p)
    \/ copy_dir_all(p)
    \/ download_install(p)
    \/ download_remove_temp(p)
    \/ ensure_check_downloaded(p)
    \/ main_spawn(p)

\* whole runs of the launcher, one invocation after the other
Next ==
    \E p \in Procs :
        \/ \E a \in MainArgvs, d \in MainDirs : main_begin(p, a, d)
        \/ Step(p)

Spec == Init /\ [][Next]_vars

\* locator runs: routing and the local-installation lookup only
NextLocal ==
    \E p \in Procs :
        \/ /\ \A q \in Procs : ~Running(q)
           /\ \E a \in DelegatingArgvs, d \in AllDirs : main_begin(p, a, d)
        \/ ensure_local(p)

SpecLocal == Init /\ [][NextLocal]_vars

\* routing runs: every program name and argument list
\* one call of install_dependencies (lines 240-294), with the manager
\* detect_package_manager chose for it (line 249)
install_dependencies_call ==
    /\ ~detectCall.returned
    /\ \E cmdOk, partial \in BOOLEAN :
         detectCall' =
           [detectCall EXCEPT
              !.package_manager = detect_package_manager(detectCall.files, detectCall.avail),
              !.events = install_dependencies(detectCall.files, detectCall.avail,
                                              cmdOk, partial).events,
              !.returned = TRUE]
    /\ UNCHANGED <<bundled, cacheBaseKnown, copyCompleted, fsVars, started, cwdDepth, installs, pc, argv,
                   cli_args, cli_path, archive, toCopy, exitCode, childStatus,
                   entryAtStart, trace>>

NextDetect == install_dependencies_call

SpecDetect == InitDetect /\ [][NextDetect]_vars

NextArgs ==
    \E p \in Procs :
        \E a \in AllArgvs, d \in MainDirs : main_begin(p, a, d)

SpecArgs == Init /\ [][NextArgs]_vars

\* overlapping runs: invocations by the same user, in a directory without a
\* local installation, interleaved step by step on the shared cache root
ConcArgvs == {[name |-> <<"p", "i">>, args |-> <<"create">>]}
ConcDirs == [depth : {MaxDepth}, installs : {{}}]

StepConc(p) ==
    \/ ensure_local(p)
    \/ ensure_get_cache_dir(p)
    \/ ensure_check_cache(p)
    \/ ensure_install_cached(p)
    \/ download_release(p)
    \/ download_tarball_release(p)
    \/ download_make_temp(p)
    \/ download_unpack(p)
    \/ download_find_extracted(p)
    \/ copy_dir_all(p)
    \/ download_install(p)
    \/ download_remove_temp(p)
    \/ ensure_check_downloaded(p)
    \/ main_spawn(p)

NextConc ==
    \E p \in Procs :
        \/ \E a \in ConcArgvs, d \in ConcDirs : main_begin_concurrent(p, a, d)
        \/ StepConc(p)

SpecConc == Init /\ [][NextConc]_vars

\* delegation runs: a locally installed CLI is spawned and its status forwarded
NextExit ==
    \E p \in Procs :
        \/ \E a \in DelegatingArgvs, d \in MainDirs : main_begin(p, a, d)
        \/ ensure_local(p)
        \/ main_spawn_any(p)

SpecExit == Init /\ [][NextExit]_vars

----------------------------------------------------------------------------
(* Vocabulary of the properties *)

InTrace(p, e) == \E i \in DOMAIN trace[p] : trace[p][i] = e
Count(p, e) == Cardinality({i \in DOMAIN trace[p] : trace[p][i] = e})

\* ensure_local has run for p
Located(p) == InTrace(p, "local") \/ InTrace(p, "local_not_found")
\* the locator's answer for p's working directory
LocalFound(p) == check_local_installation(cwdDepth[p], installs[p]).found
\* ensure_cli_available has returned for p (Ok or Err)
Resolved(p) == pc[p] = "spawn" \/ (pc[p] = "exited" /\ ~InTrace(p, "usage"))
\* main reached Command::new("node")...status() for p
SpawnAttempted(p) == InTrace(p, "spawn") \/ InTrace(p, "spawn_failed")
\* p entered download_cli
Provisioning(p) == InTrace(p, "download_cli")
RemediationCount(p) == Count(p, "manual_instructions") + Count(p, "spawn_help")

----------------------------------------------------------------------------
(* C1: the locator finds an installation 0..5 directories above the cwd,  *)
(* and none 6 above                                                        *)

\* C1 as claimed: after the lookup, a local candidate was returned exactly
\* when some installation lies at most ParentLevels (5) levels above the
\* working directory
C1_FoundWithinFiveLevels ==
    \A p \in Procs :
        Located(p) =>
            ((\E i \in installs[p] : i.level <= ParentLevels)
                <=> cli_path[p].origin = "local")

----------------------------------------------------------------------------
(* C2: a failing dependency install is never fatal *)

\* C2 as claimed: an invocation whose install_dependencies failed while the
\* cache entry point exists still ends with the cache entry point as its
\* candidate and with the child spawned
C2_InstallFailureNonFatal ==
    \A p \in Procs :
        (pc[p] = "exited" /\ InTrace(p, "install_cmd") /\ InTrace(p, "install_failed")
           /\ "dist/index.js" \in cache)
            => (cli_path[p] = CachePath /\ SpawnAttempted(p))

----------------------------------------------------------------------------
(* C3: launcher-originated failures exit with 1 *)

\* C3 as claimed: no trigger, failed resolution and failed spawn all end the
\* process with exit code 1
C3_LauncherFailureExitsOne ==
    \A p \in Procs :
        (pc[p] = "exited"
           /\ (InTrace(p, "usage") \/ cli_path[p] = NoPath \/ InTrace(p, "spawn_failed")))
            => exitCode[p] = FailureExitCode

----------------------------------------------------------------------------
(* C4: the install command runs iff package.json exists and node_modules  *)
(* is absent                                                               *)

\* C4 as claimed: whenever install_dependencies is executed, on the cache
\* hit or inside download_cli, the package manager is run exactly when the
\* cache root holds package.json and no node_modules
C4_InstallRunsIffGate ==
    [][\A p \in Procs :
          (pc[p] \in {"install_cached", "install_downloaded"} /\ pc'[p] # pc[p])
             => (InTrace(p, "install_cmd")'
                   <=> ("package.json" \in cache /\ ~dependencies_installed(cache)))]_vars

----------------------------------------------------------------------------
(* C5: temp exists only while provisioning is in progress *)

\* C5 as claimed: once the dependency install of download_cli has completed,
\* temp is gone, and no invocation that spawned the child leaves temp behind
C5_TempIsTransient ==
    \A p \in Procs :
        pc[p] = "exited" =>
            /\ (Provisioning(p) /\ InTrace(p, "install_dependencies")) => ~temp.exists
            /\ SpawnAttempted(p) => ~temp.exists

----------------------------------------------------------------------------
(* C6: resolution is idempotent on a populated cache *)

DirectSpawnTraces ==
    {<<"local_not_found", "get_cache_dir", "cache_hit", "spawn", "child_exit">>,
     <<"local_not_found", "get_cache_dir", "cache_hit", "spawn_failed", "spawn_help">>}

\* C6: an invocation that begins with the cache entry point present and no
\* local installation found never enters download_cli and sends no request,
\* returns the cache entry point, and leaves the entry point in place, so
\* the next invocation is in the same case and returns the same path; when
\* no dependency install was needed the only steps are the lookup and the spawn
C6_PopulatedCacheIdempotent ==
    \A p \in Procs :
        (entryAtStart[p] /\ ~LocalFound(p)) =>
            /\ ~Provisioning(p)
            /\ ~InTrace(p, "get_release") /\ ~InTrace(p, "get_tarball")
            /\ "dist/index.js" \in cache
            /\ Resolved(p) => cli_path[p] = CachePath
            /\ (pc[p] = "exited" /\ ~InTrace(p, "usage")
                  /\ ~InTrace(p, "install_dependencies"))
                 => trace[p] \in DirectSpawnTraces

\* the third invocation of a run, the second in a row on a populated cache
\* with node_modules present, has spawned the child from the cache entry point
C6_Witness ==
    \E p \in Procs :
        /\ started = 3 /\ entryAtStart[p] /\ ~LocalFound(p)
        /\ pc[p] = "exited" /\ cli_path[p] = CachePath
        /\ trace[p] = <<"local_not_found", "get_cache_dir", "cache_hit", "spawn", "child_exit">>

----------------------------------------------------------------------------
(* C7: download_cli runs once per resolution that finds the entry point   *)
(* missing                                                                 *)

\* C7 as claimed: every resolution that began with the cache entry point
\* missing entered download_cli exactly once
C7_ExactlyOnceWhenMissing ==
    \A p \in Procs :
        (Resolved(p) /\ ~entryAtStart[p]) => Count(p, "download_cli") = 1

\* C7 amended: download_cli is entered at most once in a resolution and
\* each of its two requests is sent at most once (no retry); a resolution
\* that began with the entry point missing entered it exactly once when no
\* local installation was found and the cache directory is known, and not
\* at all otherwise
C7_AtMostOnceAndOnceWhenReached ==
    \A p \in Procs :
        /\ Count(p, "download_cli") <= 1
        /\ Count(p, "get_release") <= 1
        /\ Count(p, "get_tarball") <= 1
        /\ (Resolved(p) /\ ~entryAtStart[p]) =>
              (Count(p, "download_cli") = 1 <=> (~LocalFound(p) /\ cacheBaseKnown))

\* a provisioning attempt that succeeded without producing the entry point
\* has ended the invocation after one download_cli
C7_Witness ==
    \E p \in Procs :
        /\ pc[p] = "exited" /\ ~entryAtStart[p] /\ ~LocalFound(p)
        /\ InTrace(p, "entry_point_missing")
        /\ Count(p, "download_cli") = 1

----------------------------------------------------------------------------
(* C8: the local installation short-circuits the chain *)

ResolutionSteps ==
    {"local_not_found", "get_cache_dir", "cache_hit", "cache_miss", "download_cli",
     "get_release", "get_tarball", "install_dependencies", "install_cmd", "panic"}

\* C8: when the locator finds a local installation the candidate is that
\* path, whatever the cache holds, and neither the cache lookup nor the
\* download nor the dependency install happens; the cache directory is
\* only asked for after the locator reported 'not found'
C8_LocalShortCircuits ==
    \A p \in Procs :
        /\ (Located(p) /\ LocalFound(p)) =>
              LET r == check_local_installation(cwdDepth[p], installs[p]) IN
              /\ cli_path[p] = [origin |-> "local", level |-> r.level, kind |-> r.kind]
              /\ \A e \in ResolutionSteps : ~InTrace(p, e)
        /\ InTrace(p, "get_cache_dir") =>
              (trace[p][1] = "local_not_found" /\ ~LocalFound(p))

\* a local installation was used although the cache holds an entry point
C8_Witness ==
    \E p \in Procs :
        /\ LocalFound(p) /\ "dist/index.js" \in cache
        /\ pc[p] = "exited" /\ InTrace(p, "spawn")
        /\ cli_path[p].origin = "local"

----------------------------------------------------------------------------
(* C9: a failed download falls through to the bundled executable *)

\* C9 as claimed: with no local installation, no cached entry point, the
\* release request failing in transport and a bundled native executable in
\* place, the invocation spawns a child and exits with the child's code
C9_BundledFallback ==
    \A p \in Procs :
        (pc[p] = "exited" /\ bundled /\ ~LocalFound(p) /\ ~entryAtStart[p]
           /\ InTrace(p, "release_unreachable"))
            => (InTrace(p, "spawn") /\ exitCode[p] = childStatus[p])

----------------------------------------------------------------------------
(* C10: every launcher-originated failure prints remediation once *)

\* C10 as claimed: an invocation whose provisioning failed (in download_cli
\* or at the lookup after it) or whose spawn failed printed remediation
\* text exactly once and did not panic
C10_FailureRemediatedOnce ==
    \A p \in Procs :
        (pc[p] = "exited"
           /\ ((Provisioning(p) /\ cli_path[p] = NoPath) \/ InTrace(p, "spawn_failed")))
            => (RemediationCount(p) = 1 /\ ~InTrace(p, "panic"))

----------------------------------------------------------------------------
(* C11: the child's exit code is forwarded *)

\* C11: after a spawn that succeeded the launcher's exit code is the
\* child's code for each of 0..255, and 1 when the child has no code
C11_ChildCodeForwarded ==
    \A p \in Procs :
        InTrace(p, "spawn") =>
            /\ childStatus[p] \in 0..255 => exitCode[p] = childStatus[p]
            /\ childStatus[p] = NoCode => exitCode[p] = 1

\* a child ended with 255 and the launcher with 255
C11_Witness ==
    \E p \in Procs :
        InTrace(p, "spawn") /\ childStatus[p] = 255 /\ exitCode[p] = 255

----------------------------------------------------------------------------
(* C12: the forwarded argument vector *)

\* the two triggers, read off the raw invocation
NameHasPi(a) == \E i \in 1..(Len(a.name) - 1) : a.name[i] = "p" /\ a.name[i + 1] = "i"
FirstArgIsPi(a) == Len(a.args) >= 1 /\ a.args[1] = "pi"
\* s is r without its first k elements, the rest verbatim and in order
IsSuffixFrom(s, r, k) ==
    /\ Len(s) = Len(r) - k
    /\ \A i \in 1..Len(s) : s[i] = r[i + k]

\* C12: an invocation delegates exactly when its name contains "pi" or its
\* first argument is "pi"; the forwarded vector is the argument list after
\* the program name when the name matched, and that list without its first
\* element (the token) when only the token matched
C12_ForwardedArgs ==
    \A p \in Procs :
        pc[p] # "idle" =>
            /\ InTrace(p, "usage") <=> ~(NameHasPi(argv[p]) \/ FirstArgIsPi(argv[p]))
            /\ InTrace(p, "usage") => (pc[p] = "exited" /\ cli_args[p] = <<>>)
            /\ NameHasPi(argv[p]) => IsSuffixFrom(cli_args[p], argv[p].args, 0)
            /\ (~NameHasPi(argv[p]) /\ FirstArgIsPi(argv[p]))
                  => IsSuffixFrom(cli_args[p], argv[p].args, 1)

\* `ln pi create` forwards <<"create">>
C12_Witness ==
    \E p \in Procs :
        /\ argv[p] = [name |-> <<"l", "n">>, args |-> <<"pi", "create">>]
        /\ pc[p] = "check_local"
        /\ cli_args[p] = <<"create">>

----------------------------------------------------------------------------
(* C13: the order of the steps of a first run *)

FirstRunSteps ==
    <<"local_not_found", "get_cache_dir", "cache_miss", "download_cli",
      "get_release", "release_ok", "get_tarball", "tarball_ok", "make_temp", "unpack",
      "copied", "install_dependencies", "install_cmd", "install_ok", "remove_temp",
      "downloaded", "spawn", "child_exit">>

\* C13: an invocation that provisioned the cache and spawned the child did
\* these steps in this order, each once: release metadata, tarball, unpack
\* into temp, copy, dependency install, removal of temp, spawn; the entry
\* point and node_modules are in the cache and temp is gone when the child
\* runs, the child gets the forwarded arguments, and the launcher ends with
\* the child's code
C13_FirstRunOrder ==
    \A p \in Procs :
        (pc[p] = "exited" /\ Provisioning(p) /\ InTrace(p, "spawn")) =>
            /\ trace[p] = FirstRunSteps
            /\ {"dist/index.js", "package.json", "node_modules"} \subseteq cache
            /\ ~temp.exists
            /\ cli_path[p] = CachePath
            /\ cli_args[p] = <<"create">>
            /\ exitCode[p] = IF childStatus[p] = NoCode THEN 1 ELSE childStatus[p]

\* the first invocation of a run went from an empty cache to a child that
\* ended with 2
C13_Witness ==
    \E p \in Procs :
        /\ started = 1 /\ pc[p] = "exited" /\ trace[p] = FirstRunSteps
        /\ childStatus[p] = 2 /\ exitCode[p] = 2

----------------------------------------------------------------------------
(* C14: overlapping invocations are not serialized *)

InDownload(p) ==
    pc[p] \in {"download_release", "download_tarball", "make_temp", "unpack",
               "find_extracted", "copy", "install_downloaded", "remove_temp"}

\* C14: no invocation ever waits for another: whatever the other invocation
\* is doing, also when it is inside download_cli on the same temp and cache
\* root, a running invocation can take its next step
C14_NotSerialized ==
    \A p \in Procs : Running(p) => ENABLED StepConc(p)

\* both invocations began on an empty cache and are inside download_cli;
\* p is still copying entries that are no longer in temp, because q has
\* removed and recreated temp in the meantime
C14_Witness ==
    \E p, q \in Procs :
        /\ p # q /\ ~entryAtStart[p] /\ ~entryAtStart[q]
        /\ InDownload(p) /\ InDownload(q)
        /\ pc[p] = "copy" /\ toCopy[p] # {} /\ ~(toCopy[p] \subseteq temp.entries)
        /\ InTrace(q, "make_temp")

\* q began on an empty cache, found the entry point p had just copied and
\* returned it while p is still copying the rest of the tree
C14_EarlyHit ==
    \E p, q \in Procs :
        /\ p # q /\ ~entryAtStart[p] /\ ~entryAtStart[q]
        /\ pc[p] = "copy" /\ toCopy[p] # {}
        /\ InTrace(q, "cache_hit") /\ cli_path[q] = CachePath

----------------------------------------------------------------------------
(* C15: package-manager selection *)

PnpmChosen(c) == "pnpm-lock.yaml" \in c.files /\ "pnpm" \in c.avail
YarnChosen(c) == ~PnpmChosen(c) /\ "yarn.lock" \in c.files /\ "yarn" \in c.avail

\* C15: the manager is pnpm exactly when pnpm-lock.yaml exists and pnpm can
\* be invoked, otherwise yarn exactly when yarn.lock exists and yarn can be
\* invoked, otherwise npm whether or not npm can be invoked; it is always one
\* of the three, so a call that finds package.json always runs the install
\* command and never ends in the unsupported-manager branch
C15_ManagerSelection ==
    detectCall.returned =>
        /\ detectCall.package_manager = "pnpm" <=> PnpmChosen(detectCall)
        /\ detectCall.package_manager = "yarn" <=> YarnChosen(detectCall)
        /\ detectCall.package_manager = "npm"
             <=> (~PnpmChosen(detectCall) /\ ~YarnChosen(detectCall))
        /\ detectCall.package_manager \in {"pnpm", "yarn", "npm"}
        /\ detectCall.events # <<"manual_instructions">>
        /\ "package.json" \in detectCall.files
             => (Len(detectCall.events) >= 1 /\ detectCall.events[1] = "install_cmd")

\* npm chosen although pnpm's lockfile is there and npm cannot be invoked
C15_Witness ==
    /\ detectCall.returned
    /\ "package.json" \in detectCall.files
    /\ "pnpm-lock.yaml" \in detectCall.files
    /\ detectCall.avail = {}
    /\ detectCall.package_manager = "npm"

----------------------------------------------------------------------------
(* C16: the locator's traversal order *)

\* C16: a path the locator returns exists, no installation lies nearer to
\* the working directory, and it is the legacy path only when the scoped
\* path is absent from the same directory, so the answer is a function of
\* the directory tree; the locator leaves the file system as it was
C16_NearestScopedFirst ==
    /\ \A p \in Procs :
          cli_path[p].origin = "local" =>
              /\ cli_path[p].level <= cwdDepth[p]
              /\ [level |-> cli_path[p].level, kind |-> cli_path[p].kind] \in installs[p]
              /\ \A i \in installs[p] : i.level >= cli_path[p].level
              /\ cli_path[p].kind = "legacy" =>
                    [level |-> cli_path[p].level, kind |-> "scoped"] \notin installs[p]
    /\ cacheRoot = FALSE /\ cache = {} /\ temp = NoTemp

\* both paths exist in the same ancestor directory and the scoped one is returned
C16_Witness ==
    \E p \in Procs :
        /\ cli_path[p].origin = "local"
        /\ cli_path[p].level >= 1
        /\ cli_path[p].kind = "scoped"
        /\ [level |-> cli_path[p].level, kind |-> "legacy"] \in installs[p]

\* two installations in different directories and the nearer one is returned
C16_NearestWins ==
    \E p \in Procs :
        /\ cli_path[p].origin = "local"
        /\ \E i \in installs[p] : i.level > cli_path[p].level

----------------------------------------------------------------------------
(* C17: a cache hit implies a completely copied tree *)

\* C17: the cache entry point is returned as the candidate only after some
\* copy_dir_all into the cache root ran to completion; a copy that failed
\* part-way leaves no entry point a later invocation accepts
C17_HitImpliesCompleteCopy ==
    \A p \in Procs : cli_path[p] = CachePath => copyCompleted

----------------------------------------------------------------------------
(* C18: an invocation served by a local installation leaves the cache alone *)

\* C18: no step of an invocation whose candidate is a local installation,
\* from the locator's answer to the process exit and also when spawning node
\* fails, creates the cache root or changes anything beneath it
C18_LocalLeavesCacheUntouched ==
    [][\A p \in Procs :
          (Running(p) /\ (cli_path[p].origin = "local" \/ cli_path'[p].origin = "local"))
              => UNCHANGED fsVars]_vars

----------------------------------------------------------------------------
(* C19: a returned path was seen to exist *)

\* C19: a path ensure_cli_available returned was seen to exist in the same
\* call: a local candidate the locator found, or the cache entry point seen
\* at the cache check or re-checked after download_cli succeeded. When
\* download_cli succeeded and the entry point is absent the call returns an
\* error, the entry point stays absent, and an invocation that begins
\* without the entry point and reaches the cache check provisions again
C19_ReturnedPathObserved ==
    \A p \in Procs :
        /\ cli_path[p].origin = "local" =>
              /\ InTrace(p, "local")
              /\ cli_path[p].level <= cwdDepth[p]
              /\ [level |-> cli_path[p].level, kind |-> cli_path[p].kind] \in installs[p]
        /\ cli_path[p].origin = "cache" =>
              /\ "dist/index.js" \in cache
              /\ InTrace(p, "cache_hit") \/ InTrace(p, "downloaded")
        /\ InTrace(p, "downloaded") => InTrace(p, "remove_temp")
        /\ InTrace(p, "entry_point_missing") =>
              /\ InTrace(p, "remove_temp")
              /\ cli_path[p] = NoPath
              /\ pc[p] = "exited" /\ exitCode[p] = PanicExitCode
              /\ "dist/index.js" \notin cache
        /\ (~entryAtStart[p] /\ (InTrace(p, "cache_hit") \/ InTrace(p, "cache_miss")))
              => (InTrace(p, "cache_miss") /\ Provisioning(p))

\* download_cli succeeded on an archive without dist/index.js and the call
\* ended in the error
C19_Witness ==
    \E p \in Procs :
        /\ InTrace(p, "entry_point_missing")
        /\ InTrace(p, "install_ok")
        /\ pc[p] = "exited"

\* a later invocation is provisioning again on the cache root such a call
\* left behind: dependencies installed, temp removed, no entry point
C19_ProvisionsAgain ==
    \E p \in Procs :
        /\ pc[p] = "download_release"
        /\ copyCompleted /\ ~temp.exists
        /\ "node_modules" \in cache /\ "dist/index.js" \notin cache

====
